---- MODULE Spec2Model ----
(***************************************************************************)
(* AppRecords: ApplicationRecord (application_record.py) and the console   *)
(* and form drivers (main.py).                                             *)
(*                                                                         *)
(* Text is a sequence of one-character strings, so that strip, endswith,   *)
(* slicing, formatting and parsing are computed character by character.    *)
(* A date/time value is a record of the fields of datetime.datetime; its   *)
(* tz field is NoTz for a zone-naive value and Tz(minutes), its offset     *)
(* from UTC, for a zone-aware one.                                         *)
(***************************************************************************)
EXTENDS Integers, Sequences, FiniteSets, TLC

VARIABLES
    file,     \* the target file: [exists, rows]
    rec,      \* the ApplicationRecord object, or NoRec
    last,     \* the last constructor / timestamp setter call and its outcome
    ret,      \* the last parse_timestamp call and its outcome
    mode,     \* the front-end main() selected: "console", "form" or "api"
    pc,       \* the driver's position
    ui,       \* what the last driver iteration prompted for and printed
    hist,     \* history: the initial file, the rows appended, the failures
    procs     \* concurrent appenders: position, write_header, rows

vars == <<file, rec, last, ret, mode, pc, ui, hist, procs>>

----------------------------------------------------------------------------
(* Bounds *)

\* most data rows the target file grows to
MaxRows == 2
\* appends each concurrent writer process performs
MaxAppends == 2

----------------------------------------------------------------------------
(* Text *)

Digits == <<"0", "1", "2", "3", "4", "5", "6", "7", "8", "9">>

IsDigit(c) == \E d \in 1..10 : Digits[d] = c

DigitVal(c) == (CHOOSE d \in 1..10 : Digits[d] = c) - 1

Whitespace == {" ", "\t", "\n"}

IsSpace(c) == c \in Whitespace

SetMin(S) == CHOOSE x \in S : \A y \in S : x <= y

SetMax(S) == CHOOSE x \in S : \A y \in S : x >= y

\* the element of a one-element set: {e(x) : x \in {v}} computes v once and
\* names its value x, as an assignment to a local variable does
Only(S) == CHOOSE x \in S : TRUE

\* str.strip()
Strip(s) ==
    LET keep == {i \in 1..Len(s) : ~IsSpace(s[i])}
    IN  IF keep = {} THEN <<>> ELSE SubSeq(s, SetMin(keep), SetMax(keep))

\* s.endswith("Z")
EndsWithZ(s) == Len(s) >= 1 /\ s[Len(s)] = "Z"

\* "%0<width>d" % n
RECURSIVE Pad(_, _)
Pad(n, width) ==
    IF width = 0 THEN <<>>
    ELSE Append(Pad(n \div 10, width - 1), Digits[(n % 10) + 1])

\* str(n) of a non-negative integer
RECURSIVE StrInt(_)
StrInt(n) == IF n < 10 THEN <<Digits[n + 1]>>
             ELSE Append(StrInt(n \div 10), Digits[(n % 10) + 1])

AllDigits(s, from, to) == \A i \in from..to : i <= Len(s) /\ IsDigit(s[i])

\* int(s[from:to]) of a run of digits
RECURSIVE Num(_, _, _)
Num(s, from, to) ==
    IF to < from THEN 0 ELSE 10 * Num(s, from, to - 1) + DigitVal(s[to])

----------------------------------------------------------------------------
(* datetime: the proleptic Gregorian calendar *)

\* tzinfo: None, or a fixed offset from UTC in minutes
NoTz == [aware |-> FALSE, minutes |-> 0]

Tz(minutes) == [aware |-> TRUE, minutes |-> minutes]

\* datetime.timezone.utc
UTC == Tz(0)

IsLeap(y) == (y % 4 = 0) /\ ((y % 100 # 0) \/ (y % 400 = 0))

ThirtyDayMonths == {4, 6, 9, 11}

DaysInMonth(y, m) ==
    IF m = 2 THEN (IF IsLeap(y) THEN 29 ELSE 28)
    ELSE IF m \in ThirtyDayMonths THEN 30 ELSE 31

DaysBeforeYear(y) ==
    ((y - 1) * 365) + ((y - 1) \div 4) - ((y - 1) \div 100) + ((y - 1) \div 400)

RECURSIVE DaysBeforeMonth(_, _)
DaysBeforeMonth(y, m) ==
    IF m = 1 THEN 0 ELSE DaysBeforeMonth(y, m - 1) + DaysInMonth(y, m - 1)

\* date.toordinal(): 0001-01-01 is day 1
ToOrdinal(y, m, d) == DaysBeforeYear(y) + DaysBeforeMonth(y, m) + d

\* date.fromordinal()
FromOrdinal(n) ==
    LET y == CHOOSE yy \in ((n - 1) \div 366 + 1)..((n - 1) \div 365 + 1) :
                 DaysBeforeYear(yy) < n /\ n <= DaysBeforeYear(yy + 1)
        r == n - DaysBeforeYear(y)
        m == CHOOSE mm \in 1..12 :
                 DaysBeforeMonth(y, mm) < r
                 /\ r <= DaysBeforeMonth(y, mm) + DaysInMonth(y, mm)
    IN  [year |-> y, month |-> m, day |-> r - DaysBeforeMonth(y, m)]

DateTime(y, mo, d, h, mi, s, us, tz) ==
    [year |-> y, month |-> mo, day |-> d, hour |-> h, minute |-> mi,
     second |-> s, microsecond |-> us, tz |-> tz]

\* seconds since midnight of the wall-clock fields
SecondOfDay(dt) == dt.hour * 3600 + dt.minute * 60 + dt.second

\* astimezone_utc with the offset added instead of subtracted
astimezone_utc_offset_added(dt) ==
    LET secs == SecondOfDay(dt) + dt.tz.minutes * 60
        days == ToOrdinal(dt.year, dt.month, dt.day) + (secs \div 86400)
        r    == secs % 86400
        ymd  == FromOrdinal(days)
    IN  IF dt.tz = UTC THEN [ok |-> TRUE, dt |-> dt]
        ELSE IF 0 < days /\ days <= 3652059
        THEN [ok |-> TRUE,
              dt |-> DateTime(ymd.year, ymd.month, ymd.day, r \div 3600,
                              (r % 3600) \div 60, r % 60, dt.microsecond, UTC)]
        ELSE [ok |-> FALSE, dt |-> dt]

\* datetime.astimezone(timezone.utc) of a zone-aware value: the wall clock
\* minus the offset, normalised to days and seconds as timedelta does;
\* datetime arithmetic raises OverflowError outside 0001-01-01 .. 9999-12-31
astimezone_utc(dt) ==
    LET secs == SecondOfDay(dt) - dt.tz.minutes * 60
        days == ToOrdinal(dt.year, dt.month, dt.day) + (secs \div 86400)
        r    == secs % 86400
        ymd  == FromOrdinal(days)
    IN  IF dt.tz = UTC THEN [ok |-> TRUE, dt |-> dt]
        ELSE IF 0 < days /\ days <= 3652059
        THEN [ok |-> TRUE,
              dt |-> DateTime(ymd.year, ymd.month, ymd.day, r \div 3600,
                              (r % 3600) \div 60, r % 60, dt.microsecond, UTC)]
        ELSE [ok |-> FALSE, dt |-> dt]

\* dt.replace(tzinfo=tz)
replace_tzinfo(dt, tz) == [dt EXCEPT !.tz = tz]

\* datetime.isoformat(timespec="seconds") of a zone-naive value
isoformat_seconds(dt) ==
    Pad(dt.year, 4) \o <<"-">> \o Pad(dt.month, 2) \o <<"-">> \o Pad(dt.day, 2)
        \o <<"T">> \o Pad(dt.hour, 2) \o <<":">> \o Pad(dt.minute, 2)
        \o <<":">> \o Pad(dt.second, 2)

----------------------------------------------------------------------------
(* Values handed to the Record: None, a datetime, a str, or anything else *)

None == [kind |-> "none"]

DtVal(dt) == [kind |-> "datetime", dt |-> dt]

StrVal(text) == [kind |-> "str", text |-> text]

IntVal(n) == [kind |-> "int", n |-> n]

\* str(value) of the values the model hands to the coercing setters
str(value) == IF value.kind = "str" THEN value.text ELSE StrInt(value.n)

\* the exceptions _to_iso_utc lets out: [raised, text]
OverflowRaised == [raised |-> "OverflowError", text |-> <<>>]

TypeRaised == [raised |-> "TypeError", text |-> <<>>]

\* _to_iso_utc formatting the converted value without the "Z" suffix
_to_iso_utc_without_z(value) ==
    IF value.kind = "datetime"
    THEN LET utc == IF value.dt.tz = NoTz
                    THEN [ok |-> TRUE, dt |-> replace_tzinfo(value.dt, UTC)]
                    ELSE astimezone_utc(value.dt)
         IN  IF utc.ok
             THEN [raised |-> "none",
                   text |-> isoformat_seconds(replace_tzinfo(utc.dt, NoTz))]
             ELSE OverflowRaised
    ELSE IF value.kind = "str"
    THEN [raised |-> "none", text |-> value.text]
    ELSE TypeRaised

\* ApplicationRecord._to_iso_utc
_to_iso_utc(value) ==
    IF value.kind = "datetime"
    THEN LET utc == IF value.dt.tz = NoTz
                    THEN [ok |-> TRUE, dt |-> replace_tzinfo(value.dt, UTC)]
                    ELSE astimezone_utc(value.dt)
         IN  IF utc.ok
             THEN [raised |-> "none",
                   text |-> isoformat_seconds(replace_tzinfo(utc.dt, NoTz))
                                \o <<"Z">>]
             ELSE OverflowRaised
    ELSE IF value.kind = "str"
    THEN [raised |-> "none", text |-> value.text]
    ELSE TypeRaised

----------------------------------------------------------------------------
(* datetime.fromisoformat, for the forms                                   *)
(*   YYYY-MM-DD [ sep HH[:MM[:SS[.fff[fff]]]] [ (+|-)HH:MM ] ]             *)

Invalid == [ok |-> FALSE, dt |-> DateTime(1, 1, 1, 0, 0, 0, 0, NoTz)]

\* the lengths of HH, HH:MM, HH:MM:SS, HH:MM:SS.fff and HH:MM:SS.ffffff
ClockLengths == {2, 5, 8, 12, 15}

\* the signs that start an offset
Signs == {"+", "-"}

BadClock ==
    [ok |-> FALSE, hour |-> 0, minute |-> 0, second |-> 0, microsecond |-> 0]

BadOffset == [ok |-> FALSE, minutes |-> 0]

\* the clock part: [ok, hour, minute, second, microsecond]
ParseClock(c) ==
    LET n  == Len(c)
        shapeOk ==
            /\ n \in ClockLengths
            /\ AllDigits(c, 1, 2)
            /\ n >= 5 => (c[3] = ":" /\ AllDigits(c, 4, 5))
            /\ n >= 8 => (c[6] = ":" /\ AllDigits(c, 7, 8))
            /\ n >= 12 => (c[9] = "." /\ AllDigits(c, 10, n))
        h  == Num(c, 1, 2)
        mi == IF n >= 5 THEN Num(c, 4, 5) ELSE 0
        s  == IF n >= 8 THEN Num(c, 7, 8) ELSE 0
        us == IF n = 12 THEN Num(c, 10, 12) * 1000
              ELSE IF n = 15 THEN Num(c, 10, 15) ELSE 0
    IN  IF shapeOk /\ h < 24 /\ mi < 60 /\ s < 60
        THEN [ok |-> TRUE, hour |-> h, minute |-> mi, second |-> s,
              microsecond |-> us]
        ELSE BadClock

\* the offset part "HH:MM" after its sign: [ok, minutes]
ParseOffset(z) ==
    IF Len(z) = 5 /\ AllDigits(z, 1, 2) /\ z[3] = ":" /\ AllDigits(z, 4, 5)
          /\ Num(z, 1, 2) < 24 /\ Num(z, 4, 5) < 60
    THEN [ok |-> TRUE, minutes |-> Num(z, 1, 2) * 60 + Num(z, 4, 5)]
    ELSE BadOffset

fromisoformat(s) ==
    LET n == Len(s)
        dateShape == /\ n >= 10
                     /\ AllDigits(s, 1, 4) /\ s[5] = "-"
                     /\ AllDigits(s, 6, 7) /\ s[8] = "-"
                     /\ AllDigits(s, 9, 10)
        y  == Num(s, 1, 4)
        mo == Num(s, 6, 7)
        d  == Num(s, 9, 10)
        dateOk == dateShape /\ y >= 1 /\ mo \in 1..12
                  /\ d >= 1 /\ d <= DaysInMonth(y, mo)
        t     == SubSeq(s, 12, n)
        signs == {i \in 1..Len(t) : t[i] \in Signs}
        cut   == IF signs = {} THEN Len(t) + 1 ELSE SetMin(signs)
        clock == ParseClock(SubSeq(t, 1, cut - 1))
        off   == ParseOffset(SubSeq(t, cut + 1, Len(t)))
        tz    == IF signs = {} THEN NoTz
                 ELSE IF t[cut] = "-" THEN Tz(0 - off.minutes)
                 ELSE Tz(off.minutes)
    IN  IF ~dateOk THEN Invalid
        ELSE IF n = 10 THEN [ok |-> TRUE, dt |-> DateTime(y, mo, d, 0, 0, 0, 0, NoTz)]
        ELSE IF n = 11 \/ ~clock.ok \/ (signs # {} /\ ~off.ok) THEN Invalid
        ELSE [ok |-> TRUE,
              dt |-> DateTime(y, mo, d, clock.hour, clock.minute, clock.second,
                              clock.microsecond, tz)]

----------------------------------------------------------------------------
(* main.parse_timestamp: the value returned and whether the warning was    *)
(* printed; raised records an exception that left the helper               *)

now_utc(clock) == replace_tzinfo(clock, UTC)

Returned(dt, warned) == [dt |-> dt, warned |-> warned, raised |-> FALSE]

\* parse_timestamp converting every parsed value to UTC and dropping its zone
parse_timestamp_all_naive_utc(raw, clock) ==
    LET s  == Strip(raw)
        s2 == SubSeq(s, 1, Len(s) - 1) \o <<"+", "0", "0", ":", "0", "0">>
    IN  IF s = <<>> THEN Returned(now_utc(clock), FALSE)
        ELSE Only({
            IF ~parsed.ok THEN Returned(now_utc(clock), TRUE)
            ELSE IF parsed.dt.tz = NoTz THEN Returned(parsed.dt, FALSE)
            ELSE Only({
                IF utc.ok THEN Returned(replace_tzinfo(utc.dt, NoTz), FALSE)
                ELSE Returned(now_utc(clock), TRUE)
                : utc \in {astimezone_utc(parsed.dt)}})
            : parsed \in {fromisoformat(IF EndsWithZ(s) THEN s2 ELSE s)}})

\* parse_timestamp with the handler around the "Z" branch only
parse_timestamp_partial_handler(raw, clock) ==
    LET s  == Strip(raw)
        s2 == SubSeq(s, 1, Len(s) - 1) \o <<"+", "0", "0", ":", "0", "0">>
    IN  IF s = <<>> THEN Returned(now_utc(clock), FALSE)
        ELSE IF EndsWithZ(s)
        THEN Only({
            IF ~parsed.ok THEN Returned(now_utc(clock), TRUE)
            ELSE Only({
                IF utc.ok THEN Returned(replace_tzinfo(utc.dt, NoTz), FALSE)
                ELSE Returned(now_utc(clock), TRUE)
                : utc \in {astimezone_utc(parsed.dt)}})
            : parsed \in {fromisoformat(s2)}})
        ELSE Only({
            [dt |-> parsed.dt, warned |-> FALSE, raised |-> ~parsed.ok]
            : parsed \in {fromisoformat(s)}})

parse_timestamp(raw, clock) ==
    LET s  == Strip(raw)
        s2 == SubSeq(s, 1, Len(s) - 1) \o <<"+", "0", "0", ":", "0", "0">>
    IN  IF s = <<>> THEN Returned(now_utc(clock), FALSE)
        ELSE IF EndsWithZ(s)
        THEN Only({
            IF ~parsed.ok THEN Returned(now_utc(clock), TRUE)
            ELSE Only({
                IF utc.ok THEN Returned(replace_tzinfo(utc.dt, NoTz), FALSE)
                ELSE Returned(now_utc(clock), TRUE)
                : utc \in {astimezone_utc(parsed.dt)}})
            : parsed \in {fromisoformat(s2)}})
        ELSE Only({
            IF parsed.ok THEN Returned(parsed.dt, FALSE)
            ELSE Returned(now_utc(clock), TRUE)
            : parsed \in {fromisoformat(s)}})

----------------------------------------------------------------------------
(* ApplicationRecord *)

NoRec == [live |-> FALSE, timestamp |-> <<>>, company_name |-> <<>>,
          application_id |-> <<>>]

\* ApplicationRecord.__init__: the exception raised ("none" if none) and
\* the object constructed
init(timestamp, company_name, application_id, clock) ==
    LET value == IF timestamp.kind = "none" THEN DtVal(now_utc(clock))
                 ELSE timestamp
    IN  Only({
            IF iso.raised # "none"
            THEN [raised |-> iso.raised, value |-> value, rec |-> NoRec]
            ELSE [raised |-> "none", value |-> value,
                  rec |-> [live |-> TRUE, timestamp |-> iso.text,
                           company_name |-> str(company_name),
                           application_id |-> str(application_id)]]
            : iso \in {_to_iso_utc(value)}})

\* the timestamp setter
set_timestamp(self, value) ==
    Only({
        IF iso.raised # "none"
        THEN [raised |-> iso.raised, value |-> value, rec |-> self]
        ELSE [raised |-> "none", value |-> value,
              rec |-> [self EXCEPT !.timestamp = iso.text]]
        : iso \in {_to_iso_utc(value)}})

\* the company_name setter
set_company_name(self, value) == [self EXCEPT !.company_name = str(value)]

\* the application_id setter
set_application_id(self, value) == [self EXCEPT !.application_id = str(value)]

to_csv_row(self) == <<self.timestamp, self.company_name, self.application_id>>

CSV_HEADER ==
    << <<"t", "i", "m", "e", "s", "t", "a", "m", "p">>,
       <<"c", "o", "m", "p", "a", "n", "y", "_", "n", "a", "m", "e">>,
       <<"a", "p", "p", "l", "i", "c", "a", "t", "i", "o", "n", "_", "i", "d">> >>

----------------------------------------------------------------------------
(* The target file and append_to_csv *)

AbsentFile == [exists |-> FALSE, rows |-> <<>>]

EmptyFile == [exists |-> TRUE, rows |-> <<>>]

\* bytes csv.writer writes for a row: the fields, two commas and "\r\n"
\* (quoting only adds bytes)
RowBytes(row) == Len(row[1]) + Len(row[2]) + Len(row[3]) + 4

RECURSIVE st_size(_)
st_size(rows) ==
    IF rows = <<>> THEN 0 ELSE RowBytes(Head(rows)) + st_size(Tail(rows))

\* write_header without the test of the size
write_header_only_if_absent(f) == ~f.exists

\* write_header without any test
write_header_always(f) == TRUE

\* line 67: write_header = not path.exists() or path.stat().st_size == 0
write_header(f) == ~f.exists \/ st_size(f.rows) = 0

\* line 70: path.open("a") creates the file if it is absent
open_append(f) == [f EXCEPT !.exists = TRUE]

\* lines 71-74: the header if write_header, then the row; flushed on close
write_rows(f, wh, row) ==
    [f EXCEPT !.rows = @ \o (IF wh THEN <<CSV_HEADER>> ELSE <<>>) \o <<row>>]

\* what the operating system does to the call
IoOutcomes == {"ok", "open_fails", "write_fails"}

\* ApplicationRecord.append_to_csv, uninterrupted
append_to_csv(self, f, io) ==
    IF io = "open_fails" THEN [raised |-> TRUE, file |-> f]
    ELSE IF io = "write_fails" THEN [raised |-> TRUE, file |-> open_append(f)]
    ELSE [raised |-> FALSE,
          file |-> write_rows(open_append(f), write_header(f), to_csv_row(self))]

----------------------------------------------------------------------------
(* Inputs *)

Body(y, mo, d, h, mi, sec) ==
    isoformat_seconds(DateTime(y, mo, d, h, mi, sec, 0, NoTz))

Jan15 == Body(2024, 1, 15, 10, 30, 0)

\* timestamp texts a user types
TsTexts == {
    <<>>,
    <<" ", " ">>,
    <<"n", "o", "t", "-", "a", "-", "d", "a", "t", "e">>,
    <<"Z">>,
    Jan15 \o <<"Z">>,
    <<" ">> \o Jan15 \o <<"Z", " ">>,
    Jan15,
    SubSeq(Jan15, 1, 10),
    Jan15 \o <<"+", "0", "5", ":", "3", "0">>,
    Jan15 \o <<"+", "0", "0", ":", "0", "0">>,
    Jan15 \o <<".", "7", "5", "0", "-", "0", "8", ":", "0", "0">>,
    Jan15 \o <<"+", "0", "5", ":", "3", "0", "Z">>,
    Body(2023, 12, 31, 23, 30, 0) \o <<"-", "0", "2", ":", "0", "0">>,
    Body(2024, 3, 1, 0, 15, 0) \o <<"+", "0", "1", ":", "0", "0">>,
    Body(2024, 2, 30, 10, 0, 0),
    Body(2024, 1, 15, 24, 0, 0) \o <<"Z">>,
    Body(1, 1, 1, 0, 0, 0) \o <<"+", "0", "5", ":", "0", "0">>
}

\* readings of the system clock (datetime.now)
Clocks == {
    DateTime(2024, 6, 1, 12, 0, 0, 123456, NoTz),
    DateTime(2024, 12, 31, 23, 59, 59, 999999, NoTz)
}

\* date/time values handed to the Record directly
DtInputs == {
    DateTime(2024, 1, 15, 10, 30, 0, 999999, NoTz),
    DateTime(999, 12, 31, 23, 59, 59, 0, NoTz),
    DateTime(2024, 6, 1, 12, 0, 0, 1, UTC),
    DateTime(2024, 1, 15, 10, 30, 59, 500000, Tz(330)),
    DateTime(2023, 12, 31, 23, 30, 0, 0, Tz(-120)),
    DateTime(2024, 3, 1, 0, 15, 0, 0, Tz(60)),
    DateTime(1, 1, 1, 0, 0, 0, 0, Tz(300)),
    DateTime(9999, 12, 31, 23, 0, 0, 0, Tz(-120))
}

\* timestamp arguments of the constructor and the setter
TsValues ==
    {None, IntVal(42)}
        \cup {DtVal(dt) : dt \in DtInputs}
        \cup {StrVal(t) : t \in {Jan15 \o <<"Z">>, <<>>,
                                 <<"n", "o", "t", "-", "a", "-", "d", "a", "t", "e">>}}

Acme == <<"A", "c", "m", "e">>

\* company_name and application_id arguments
NameValues == {StrVal(Acme), IntVal(42)}

IdValues == {StrVal(<<"A", "P", "P", "-", "1">>), IntVal(7)}

----------------------------------------------------------------------------
(* State outside the part a specification exercises *)

NoCall == [op |-> "none", value |-> None, raised |-> "none", stored |-> None]

NoRet == [called |-> FALSE, arg |-> <<>>, clock |-> DateTime(1, 1, 1, 0, 0, 0, 0, NoTz),
          dt |-> DateTime(1, 1, 1, 0, 0, 0, 0, NoTz), warned |-> FALSE,
          raised |-> FALSE]

NoUi == [company |-> <<>>, prompts |-> <<>>, printed |-> <<>>,
         append_raised |-> FALSE]

NoProcs == <<>>

Hist(f) == [init |-> f, appended |-> <<>>, failed |-> FALSE]

----------------------------------------------------------------------------
(* The Record and parse_timestamp called directly *)

InitRecord ==
    /\ file = AbsentFile
    /\ rec = NoRec
    /\ last = NoCall
    /\ ret = NoRet
    /\ mode = "api"
    /\ pc = "api"
    /\ ui = NoUi
    /\ hist = Hist(AbsentFile)
    /\ procs = NoProcs

\* rec = ApplicationRecord(timestamp, company_name, application_id)
Construct(timestamp, company_name, application_id, clock) ==
    /\ mode = "api"
    /\ \E r \in {init(timestamp, company_name, application_id, clock)} :
        /\ rec' = IF r.raised = "none" THEN r.rec ELSE rec
        /\ last' = [op |-> "init", value |-> timestamp, raised |-> r.raised,
                    stored |-> IF r.raised = "none" THEN r.value ELSE last.stored]
        /\ UNCHANGED <<file, ret, mode, pc, ui, hist, procs>>

\* rec.timestamp = value
SetTimestamp(value) ==
    /\ mode = "api"
    /\ rec.live
    /\ \E r \in {set_timestamp(rec, value)} :
        /\ rec' = r.rec
        /\ last' = [op |-> "set", value |-> value, raised |-> r.raised,
                    stored |-> IF r.raised = "none" THEN r.value ELSE last.stored]
        /\ UNCHANGED <<file, ret, mode, pc, ui, hist, procs>>

\* rec.company_name = value
SetCompanyName(value) ==
    /\ mode = "api"
    /\ rec.live
    /\ rec' = set_company_name(rec, value)
    /\ UNCHANGED <<file, last, ret, mode, pc, ui, hist, procs>>

\* rec.application_id = value
SetApplicationId(value) ==
    /\ mode = "api"
    /\ rec.live
    /\ rec' = set_application_id(rec, value)
    /\ UNCHANGED <<file, last, ret, mode, pc, ui, hist, procs>>

\* parse_timestamp(raw)
ParseTimestamp(raw, clock) ==
    /\ mode = "api"
    /\ \E r \in {parse_timestamp(raw, clock)} :
        /\ ret' = [called |-> TRUE, arg |-> raw, clock |-> clock, dt |-> r.dt,
                   warned |-> r.warned, raised |-> r.raised]
        /\ UNCHANGED <<file, rec, last, mode, pc, ui, hist, procs>>

\* main.py lines 46-48 and 65-66: the value parse_timestamp returned is
\* handed to the constructor
ConstructParsed(company_name, application_id) ==
    /\ ret.called
    /\ Construct(DtVal(ret.dt), company_name, application_id, ret.clock)

NextRecord ==
    \/ \E t \in TsValues, c \in NameValues, i \in IdValues, k \in Clocks :
           Construct(t, c, i, k)
    \/ \E t \in TsValues : SetTimestamp(t)
    \/ \E c \in NameValues : SetCompanyName(c)
    \/ \E i \in IdValues : SetApplicationId(i)

SpecRecord == InitRecord /\ [][NextRecord]_vars

NextParse ==
    \/ \E raw \in TsTexts, k \in Clocks : ParseTimestamp(raw, k)
    \/ \E c \in NameValues, i \in IdValues : ConstructParsed(c, i)

SpecParse == InitRecord /\ [][NextParse]_vars

----------------------------------------------------------------------------
(* append_to_csv called directly, one call after the other *)

Jan15Z == Jan15 \o <<"Z">>

PriorRow == <<Jan15Z, <<"O", "l", "d">>, <<"0">> >>

\* the target file before the program starts
HeadedFile == [exists |-> TRUE, rows |-> <<CSV_HEADER, PriorRow>>]

HeadlessFile == [exists |-> TRUE, rows |-> <<PriorRow>>]

InitFiles == {AbsentFile, EmptyFile, HeadedFile, HeadlessFile}

InitCsv ==
    /\ file \in InitFiles
    /\ rec = NoRec
    /\ last = NoCall
    /\ ret = NoRet
    /\ mode = "api"
    /\ pc = "api"
    /\ ui = NoUi
    /\ hist = Hist(file)
    /\ procs = NoProcs

\* rec.append_to_csv(out)
AppendToCsv(io) ==
    /\ mode = "api"
    /\ rec.live
    /\ Len(hist.appended) < MaxRows
    /\ \E r \in {append_to_csv(rec, file, io)} :
        /\ file' = r.file
        /\ hist' = [hist EXCEPT
                       !.appended = IF r.raised THEN @
                                    ELSE Append(@, to_csv_row(rec)),
                       !.failed = @ \/ r.raised]
        /\ UNCHANGED <<rec, last, ret, mode, pc, ui, procs>>

\* the arguments of the Records that are appended
West2330 == DtVal(DateTime(2023, 12, 31, 23, 30, 0, 0, Tz(-120)))

CsvTimestamps == {StrVal(Jan15Z), West2330}

CsvId == IntVal(7)

NextCsv ==
    \/ \E t \in CsvTimestamps, c \in NameValues, k \in Clocks :
           Construct(t, c, CsvId, k)
    \/ \E io \in IoOutcomes : AppendToCsv(io)

SpecCsv == InitCsv /\ [][NextCsv]_vars

----------------------------------------------------------------------------
(* main.py: the console and form drivers *)

\* main(), lines 117-120: the form only if Streamlit is importable and its
\* script runner is loaded
main(st_available, under_runner) ==
    IF st_available /\ under_runner THEN "form" ELSE "console"

NoRecord ==
    [none |-> TRUE, prompts |-> <<"company">>, warned |-> FALSE,
     value |-> None, raised |-> "none", rec |-> NoRec]

Prompted(ts_value, warned, r) ==
    [none |-> FALSE, prompts |-> <<"company", "application_id", "timestamp">>,
     warned |-> warned, value |-> ts_value, raised |-> r.raised, rec |-> r.rec]

\* prompt_for_record without the strip of the company name
prompt_for_record_company_not_stripped(company_raw, id_raw, ts_raw, clock) ==
    IF company_raw = <<>> THEN NoRecord
    ELSE Only({
        Only({
            Prompted(DtVal(ts.dt), ts.warned, r)
            : r \in {init(DtVal(ts.dt), StrVal(company_raw),
                          StrVal(Strip(id_raw)), clock)}})
        : ts \in {parse_timestamp(Strip(ts_raw), clock)}})

\* prompt_for_record handing the typed text to the constructor unparsed
prompt_for_record_text_unparsed(company_raw, id_raw, ts_raw, clock) ==
    IF Strip(company_raw) = <<>> THEN NoRecord
    ELSE Only({
        Prompted(StrVal(Strip(ts_raw)), FALSE, r)
        : r \in {init(StrVal(Strip(ts_raw)), StrVal(Strip(company_raw)),
                      StrVal(Strip(id_raw)), clock)}})

\* prompt_for_record: None on an empty company name, else the Record
prompt_for_record(company_raw, id_raw, ts_raw, clock) ==
    IF Strip(company_raw) = <<>> THEN NoRecord
    ELSE Only({
        Only({
            Prompted(DtVal(ts.dt), ts.warned, r)
            : r \in {init(DtVal(ts.dt), StrVal(Strip(company_raw)),
                          StrVal(Strip(id_raw)), clock)}})
        : ts \in {parse_timestamp(Strip(ts_raw), clock)}})

Warned(w) == IF w THEN <<"warning">> ELSE <<>>

\* what a handler did: where the driver is, the file, the prompts and the
\* messages, the constructor call and the append
Outcome(pc_, f) ==
    [pc |-> pc_, file |-> f, prompts |-> <<>>, printed |-> <<>>,
     constructed |-> FALSE, value |-> None, raised |-> "none", rec |-> NoRec,
     appended |-> FALSE, append_raised |-> FALSE]

\* one iteration of the loop of interactive_mode, lines 94-100
interactive_mode(f, company_raw, id_raw, ts_raw, clock, io) ==
    Only({
        IF p.none
        THEN [Outcome("done", f) EXCEPT !.prompts = p.prompts,
                                        !.printed = <<"finished">>]
        ELSE IF p.raised # "none"
        THEN [Outcome("crashed", f) EXCEPT
                 !.prompts = p.prompts, !.printed = Warned(p.warned),
                 !.constructed = TRUE, !.value = p.value, !.raised = p.raised]
        ELSE Only({
            IF a.raised
            THEN [Outcome("crashed", a.file) EXCEPT
                     !.prompts = p.prompts, !.printed = Warned(p.warned),
                     !.constructed = TRUE, !.value = p.value, !.rec = p.rec,
                     !.append_raised = TRUE]
            ELSE [Outcome("loop", a.file) EXCEPT
                     !.prompts = p.prompts,
                     !.printed = Warned(p.warned) \o <<"appended">>,
                     !.constructed = TRUE, !.value = p.value, !.rec = p.rec,
                     !.appended = TRUE]
            : a \in {append_to_csv(p.rec, f, io)}})
        : p \in {prompt_for_record(company_raw, id_raw, ts_raw, clock)}})

\* the read-back of streamlit_mode, lines 76-87
show_csv(f, clicked) ==
    IF ~f.exists THEN <<"info_no_file">>
    ELSE IF clicked # "show" THEN <<>>
    ELSE IF Len(f.rows) > 1 THEN <<"table">> ELSE <<"csv_empty">>

\* streamlit_mode without the try around the append
streamlit_mode_without_try(f, company, application_id, ts_raw, clicked, clock, io) ==
    IF clicked # "append"
    THEN [Outcome("form", f) EXCEPT !.printed = show_csv(f, clicked)]
    ELSE IF company = <<>>
    THEN [Outcome("form", f) EXCEPT
             !.printed = <<"warning_company">> \o show_csv(f, clicked)]
    ELSE Only({
        Only({
            IF r.raised # "none"
            THEN [Outcome("form", f) EXCEPT
                     !.printed = Warned(ts.warned) \o <<"uncaught">>,
                     !.constructed = TRUE, !.value = DtVal(ts.dt),
                     !.raised = r.raised]
            ELSE Only({
                IF a.raised
                THEN [Outcome("form", a.file) EXCEPT
                         !.printed = Warned(ts.warned) \o <<"uncaught">>,
                         !.constructed = TRUE, !.value = DtVal(ts.dt),
                         !.rec = r.rec, !.append_raised = TRUE]
                ELSE [Outcome("form", a.file) EXCEPT
                         !.printed = Warned(ts.warned) \o <<"success">>
                                         \o show_csv(a.file, clicked),
                         !.constructed = TRUE, !.value = DtVal(ts.dt),
                         !.rec = r.rec, !.appended = TRUE]
                : a \in {append_to_csv(r.rec, f, io)}})
            : r \in {init(DtVal(ts.dt), StrVal(company), StrVal(application_id),
                          clock)}})
        : ts \in {parse_timestamp(ts_raw, clock)}})

\* one run of streamlit_mode, lines 57-87; an exception of the constructor
\* leaves the function and ends the run, the host keeps the form serving
streamlit_mode(f, company, application_id, ts_raw, clicked, clock, io) ==
    IF clicked # "append"
    THEN [Outcome("form", f) EXCEPT !.printed = show_csv(f, clicked)]
    ELSE IF company = <<>>
    THEN [Outcome("form", f) EXCEPT
             !.printed = <<"warning_company">> \o show_csv(f, clicked)]
    ELSE Only({
        Only({
            IF r.raised # "none"
            THEN [Outcome("form", f) EXCEPT
                     !.printed = Warned(ts.warned) \o <<"uncaught">>,
                     !.constructed = TRUE, !.value = DtVal(ts.dt),
                     !.raised = r.raised]
            ELSE Only({
                IF a.raised
                THEN [Outcome("form", a.file) EXCEPT
                         !.printed = Warned(ts.warned) \o <<"error">>
                                         \o show_csv(a.file, clicked),
                         !.constructed = TRUE, !.value = DtVal(ts.dt),
                         !.rec = r.rec, !.append_raised = TRUE]
                ELSE [Outcome("form", a.file) EXCEPT
                         !.printed = Warned(ts.warned) \o <<"success">>
                                         \o show_csv(a.file, clicked),
                         !.constructed = TRUE, !.value = DtVal(ts.dt),
                         !.rec = r.rec, !.appended = TRUE]
                : a \in {append_to_csv(r.rec, f, io)}})
            : r \in {init(DtVal(ts.dt), StrVal(company), StrVal(application_id),
                          clock)}})
        : ts \in {parse_timestamp(ts_raw, clock)}})

\* what the user types
ConsoleCompanies == {<<>>, <<" ">>, <<" ">> \o Acme}

FormCompanies == {<<>>, Acme}

DriverIds == {<<"7", " ">>}

DriverTexts == {
    <<>>,
    <<"n", "o", "t", "-", "a", "-", "d", "a", "t", "e">>,
    Jan15Z,
    Jan15,
    Body(2023, 12, 31, 23, 30, 0) \o <<"-", "0", "2", ":", "0", "0">>,
    Body(1, 1, 1, 0, 0, 0) \o <<"+", "0", "5", ":", "0", "0">>
}

\* the reading of the system clock while a driver runs
DriverClocks == {DateTime(2024, 6, 1, 12, 0, 0, 123456, NoTz)}

\* the button pressed in a run of the form, if any
Buttons == {"none", "append", "show"}

DriverFiles == {AbsentFile, HeadedFile}

Init ==
    /\ file \in DriverFiles
    /\ rec = NoRec
    /\ last = NoCall
    /\ ret = NoRet
    /\ \E st_available \in BOOLEAN, under_runner \in BOOLEAN :
           mode = main(st_available, under_runner)
    /\ pc = IF mode = "form" THEN "form" ELSE "loop"
    /\ ui = NoUi
    /\ hist = Hist(file)
    /\ procs = NoProcs

\* the driver's step: the outcome o of a handler becomes the state
Becomes(o, company_raw) ==
    /\ Len(hist.appended) < MaxRows \/ ~o.appended
    /\ file' = o.file
    /\ pc' = o.pc
    /\ rec' = IF o.constructed /\ o.raised = "none" THEN o.rec ELSE rec
    /\ last' = IF o.constructed
               THEN [op |-> "init", value |-> o.value, raised |-> o.raised,
                     stored |-> IF o.raised = "none" THEN o.value
                                ELSE last.stored]
               ELSE last
    /\ ui' = [company |-> company_raw, prompts |-> o.prompts,
              printed |-> o.printed, append_raised |-> o.append_raised]
    /\ hist' = [hist EXCEPT
                   !.appended = IF o.appended THEN Append(@, to_csv_row(o.rec))
                                ELSE @,
                   !.failed = @ \/ o.append_raised]
    /\ UNCHANGED <<ret, mode, procs>>

ConsoleIteration(company_raw, id_raw, ts_raw, clock, io) ==
    /\ mode = "console"
    /\ pc = "loop"
    /\ \E o \in {interactive_mode(file, company_raw, id_raw, ts_raw, clock, io)} :
           Becomes(o, company_raw)

FormRun(company, application_id, ts_raw, clicked, clock, io) ==
    /\ mode = "form"
    /\ pc = "form"
    /\ \E o \in {streamlit_mode(file, company, application_id, ts_raw, clicked,
                              clock, io)} :
           Becomes(o, company)

Next ==
    \/ \E c \in ConsoleCompanies, i \in DriverIds, t \in DriverTexts,
          k \in DriverClocks, io \in IoOutcomes :
           ConsoleIteration(c, i, t, k, io)
    \/ \E c \in FormCompanies, i \in DriverIds, t \in DriverTexts,
          b \in Buttons, k \in DriverClocks, io \in IoOutcomes :
           FormRun(c, i, t, b, k, io)

Spec == Init /\ [][Next]_vars

----------------------------------------------------------------------------
(* Several processes appending to the same file.  append_to_csv takes no   *)
(* lock: between its test of the file (line 67), its open (line 70) and    *)
(* the flush of its buffered rows when the file is closed (lines 71-74),   *)
(* another process may run.                                                *)

Writers == {1, 2}

\* the Record writer p appends as its k-th
WriterTimestamp == StrVal(Jan15Z)

WriterClock == DateTime(2024, 6, 1, 12, 0, 0, 0, NoTz)

WriterRecord(p, k) ==
    init(WriterTimestamp, IntVal(p), IntVal(k), WriterClock).rec

ConcFiles == {AbsentFile, EmptyFile}

InitConc ==
    /\ file \in ConcFiles
    /\ rec = NoRec
    /\ last = NoCall
    /\ ret = NoRet
    /\ mode = "api"
    /\ pc = "api"
    /\ ui = NoUi
    /\ hist = Hist(file)
    /\ procs = [p \in Writers |->
                   [pc |-> "idle", write_header |-> FALSE, done |-> 0,
                    headers |-> 0]]

\* line 67
TestFile(p) ==
    /\ procs[p].pc = "idle"
    /\ procs[p].done < MaxAppends
    /\ procs' = [procs EXCEPT ![p].pc = "tested",
                              ![p].write_header = write_header(file)]
    /\ UNCHANGED <<file, rec, last, ret, mode, pc, ui, hist>>

\* line 70
OpenFile(p) ==
    /\ procs[p].pc = "tested"
    /\ file' = open_append(file)
    /\ procs' = [procs EXCEPT ![p].pc = "opened"]
    /\ UNCHANGED <<rec, last, ret, mode, pc, ui, hist>>

\* lines 71-74 and the close
WriteFile(p) ==
    LET row == to_csv_row(WriterRecord(p, procs[p].done + 1))
    IN  /\ procs[p].pc = "opened"
        /\ file' = write_rows(file, procs[p].write_header, row)
        /\ procs' = [procs EXCEPT
                        ![p].pc = "idle",
                        ![p].done = @ + 1,
                        ![p].headers = IF procs[p].write_header THEN @ + 1
                                       ELSE @]
        /\ hist' = [hist EXCEPT !.appended = Append(@, row)]
        /\ UNCHANGED <<rec, last, ret, mode, pc, ui>>

NextConc ==
    \/ \E p \in Writers : TestFile(p)
    \/ \E p \in Writers : OpenFile(p)
    \/ \E p \in Writers : WriteFile(p)

SpecConc == InitConc /\ [][NextConc]_vars

----------------------------------------------------------------------------
(* Claims *)

\* text of the form YYYY-MM-DDTHH:MM:SSZ naming a date and a time of day
IsCanonical(t) ==
    /\ Len(t) = 20
    /\ AllDigits(t, 1, 4) /\ t[5] = "-" /\ AllDigits(t, 6, 7) /\ t[8] = "-"
    /\ AllDigits(t, 9, 10) /\ t[11] = "T" /\ AllDigits(t, 12, 13)
    /\ t[14] = ":" /\ AllDigits(t, 15, 16) /\ t[17] = ":"
    /\ AllDigits(t, 18, 19) /\ t[20] = "Z"
    /\ Num(t, 1, 4) >= 1 /\ Num(t, 6, 7) \in 1..12
    /\ Num(t, 9, 10) \in 1..DaysInMonth(Num(t, 1, 4), Num(t, 6, 7))
    /\ Num(t, 12, 13) < 24 /\ Num(t, 15, 16) < 60 /\ Num(t, 18, 19) < 60

Has(seq, x) == \E i \in 1..Len(seq) : seq[i] = x

IsHeader(row) == row = CSV_HEADER

IsData(row) == row # CSV_HEADER

HeaderCount(rows) == Len(SelectSeq(rows, IsHeader))

DataCount(rows) == Len(SelectSeq(rows, IsData))

FreshStart == ~hist.init.exists \/ hist.init.rows = <<>>

\* C1: from a target file that is absent or zero-length, after N >= 1
\* successful append_to_csv calls and no failed one, the file is the header
\* row followed by the N rows of the calls, in call order.
C1_FreshFileHeaderThenRows ==
    (FreshStart /\ ~hist.failed /\ Len(hist.appended) >= 1)
        => file.rows = <<CSV_HEADER>> \o hist.appended

C1_Witness ==
    /\ hist.init = EmptyFile
    /\ ~hist.failed
    /\ Len(hist.appended) = 2
    /\ hist.appended[1] # hist.appended[2]
    /\ file.rows = <<CSV_HEADER, hist.appended[1], hist.appended[2]>>

\* C2: a successful append_to_csv on a file that exists with non-zero length
\* writes no header: the rows the file had stay as a prefix and the one row
\* of the Record is added at the end.
C2_NoHeaderOnNonEmptyFile ==
    [][(file.exists /\ st_size(file.rows) > 0
            /\ Len(hist'.appended) = Len(hist.appended) + 1)
         => file'.rows = Append(file.rows, to_csv_row(rec))]_vars

C2_Witness ==
    /\ hist.init.rows = <<PriorRow>>
    /\ Len(hist.appended) = 2
    /\ file.rows = hist.init.rows \o hist.appended
    /\ HeaderCount(file.rows) = 0

\* C3 as claimed: the stored timestamp of a Record is canonical text
\* whatever was assigned, text included.
C3_AlwaysCanonical == rec.live => IsCanonical(rec.timestamp)

\* C3: the stored timestamp is canonical text when the value last assigned
\* was absent or a date/time value; assigned text is stored as it is.
C3_CanonicalUnlessText ==
    rec.live =>
        /\ last.stored.kind = "datetime" => IsCanonical(rec.timestamp)
        /\ last.stored.kind = "str" => rec.timestamp = last.stored.text

C3_Witness ==
    /\ rec.live
    /\ last.op = "set"
    /\ last.raised = "none"
    /\ last.value.kind = "datetime"
    /\ last.value.dt.microsecond > 0
    /\ last.value.dt.tz.aware
    /\ IsCanonical(rec.timestamp)

\* the instant a date/time value denotes, in whole seconds: days since
\* 0001-01-01 and seconds of the day, in UTC
InstantOf(dt) ==
    LET secs == SecondOfDay(dt) - (IF dt.tz.aware THEN dt.tz.minutes * 60 ELSE 0)
    IN  [days |-> ToOrdinal(dt.year, dt.month, dt.day) + (secs \div 86400),
         secs |-> secs % 86400]

\* the instant a canonical text names
InstantNamed(t) ==
    [days |-> ToOrdinal(Num(t, 1, 4), Num(t, 6, 7), Num(t, 9, 10)),
     secs |-> Num(t, 12, 13) * 3600 + Num(t, 15, 16) * 60 + Num(t, 18, 19)]

\* C4: the timestamp stored for a date/time value names the instant of that
\* value in UTC, in whole seconds: a zone-aware value is shifted by its
\* offset, a zone-naive value is written with its own fields.
C4_SameInstantInUtc ==
    (rec.live /\ last.stored.kind = "datetime") =>
        LET dt == last.stored.dt
            t  == rec.timestamp
        IN  /\ IsCanonical(t)
            /\ InstantNamed(t) = InstantOf(dt)
            /\ ~dt.tz.aware =>
                   /\ Num(t, 1, 4) = dt.year /\ Num(t, 6, 7) = dt.month
                   /\ Num(t, 9, 10) = dt.day /\ Num(t, 12, 13) = dt.hour
                   /\ Num(t, 15, 16) = dt.minute /\ Num(t, 18, 19) = dt.second

C4_Witness ==
    /\ rec.live
    /\ last.stored = West2330
    /\ rec.timestamp = <<"2", "0", "2", "4", "-", "0", "1", "-", "0", "1", "T",
                         "0", "1", ":", "3", "0", ":", "0", "0", "Z">>

\* parse_timestamp returned the value it parsed from non-empty text
Parsed == ret.called /\ Strip(ret.arg) # <<>> /\ ~ret.warned

\* the text writes an offset after its date
HasOffset(s) == \E i \in 12..Len(s) : s[i] \in Signs

\* the offset the text writes, in minutes
OffsetWritten(s) ==
    LET i == CHOOSE k \in 12..Len(s) : s[k] \in Signs
        m == Num(s, i + 1, i + 2) * 60 + Num(s, i + 4, i + 5)
    IN  IF s[i] = "-" THEN 0 - m ELSE m

\* the value has the date and the time of day the text writes
FieldsAsWritten(dt, s) ==
    /\ dt.year = Num(s, 1, 4) /\ dt.month = Num(s, 6, 7) /\ dt.day = Num(s, 9, 10)
    /\ dt.hour = (IF Len(s) >= 13 THEN Num(s, 12, 13) ELSE 0)
    /\ dt.minute = (IF Len(s) >= 16 THEN Num(s, 15, 16) ELSE 0)
    /\ dt.second = (IF Len(s) >= 19 THEN Num(s, 18, 19) ELSE 0)

\* C5 as claimed: every value parse_timestamp parses from text is zone-naive.
C5_ParsedIsNaive == Parsed => ret.dt.tz = NoTz

\* C5: a value parsed from text with a trailing Z is UTC and zone-naive, one
\* parsed from text with no zone is zone-naive with the fields as written,
\* and one parsed from text with an explicit offset is zone-aware: it keeps
\* the offset and the fields as written and is not converted to UTC.
C5_NaiveUnlessOffsetWritten ==
    Parsed =>
        LET s == Strip(ret.arg)
        IN  /\ FieldsAsWritten(ret.dt, s)
            /\ (EndsWithZ(s) \/ ~HasOffset(s)) => ret.dt.tz = NoTz
            /\ (~EndsWithZ(s) /\ HasOffset(s)) => ret.dt.tz = Tz(OffsetWritten(s))

C5_Witness ==
    /\ Parsed
    /\ ret.dt.tz.aware
    /\ ret.dt.tz.minutes = 330
    /\ ret.dt.hour = 10
    /\ rec.live
    /\ rec.timestamp = <<"2", "0", "2", "4", "-", "0", "1", "-", "1", "5", "T",
                         "0", "5", ":", "0", "0", ":", "0", "0", "Z">>

\* texts that are no ISO-8601 date/time
Malformed == {
    <<"n", "o", "t", "-", "a", "-", "d", "a", "t", "e">>,
    <<"Z">>,
    Jan15 \o <<"+", "0", "5", ":", "3", "0", "Z">>,
    Body(2024, 2, 30, 10, 0, 0),
    Body(2024, 1, 15, 24, 0, 0) \o <<"Z">>
}

\* C6: parse_timestamp raises for no text: empty or whitespace-only text
\* gives the current UTC instant, and text that does not parse gives the
\* warning and the current UTC instant.
C6_ParseNeverRaises ==
    ret.called =>
        /\ ~ret.raised
        /\ Strip(ret.arg) = <<>> =>
               (ret.dt = replace_tzinfo(ret.clock, UTC) /\ ~ret.warned)
        /\ ret.arg \in Malformed =>
               (ret.dt = replace_tzinfo(ret.clock, UTC) /\ ret.warned)
        /\ ret.warned => ret.dt = replace_tzinfo(ret.clock, UTC)

C6_Witness ==
    /\ ret.called
    /\ ret.arg = Body(2024, 2, 30, 10, 0, 0)
    /\ ret.warned
    /\ ~ret.raised
    /\ ret.dt = replace_tzinfo(ret.clock, UTC)

\* C7: an iteration of the console loop ends the loop exactly when the
\* company name typed is empty or whitespace; it then prompts for nothing
\* else and leaves the file alone.  An iteration with a company name that
\* returns to the prompt has appended exactly one row, the Record's.
C7_LoopEndsAtSentinel ==
    [][(mode = "console" /\ pc = "loop") =>
          IF Strip(ui'.company) = <<>>
          THEN /\ pc' = "done"
               /\ ui'.prompts = <<"company">>
               /\ file' = file
               /\ hist'.appended = hist.appended
          ELSE /\ pc' # "done"
               /\ ui'.prompts = <<"company", "application_id", "timestamp">>
               /\ pc' = "loop" =>
                      /\ Len(hist'.appended) = Len(hist.appended) + 1
                      /\ DataCount(file'.rows) = DataCount(file.rows) + 1
                      /\ file'.rows[Len(file'.rows)][2] = Strip(ui'.company)
                      /\ Has(ui'.printed, "appended")]_vars

C7_Witness ==
    /\ mode = "console"
    /\ pc = "done"
    /\ ui.company = <<" ">>
    /\ Len(hist.appended) = 2
    /\ file.rows = hist.init.rows \o <<CSV_HEADER>> \o hist.appended

\* C8: when the append raises, the console loop is left by the exception
\* (no confirmation, no further iteration) and the form shows an error
\* message, no success message, and keeps running.
C8_AppendFailureByFrontEnd ==
    [][/\ pc # "crashed"
       /\ mode = "form" => pc' = "form"
       /\ ui'.append_raised =>
              IF mode = "console"
              THEN pc' = "crashed" /\ ~Has(ui'.printed, "appended")
              ELSE /\ Has(ui'.printed, "error")
                   /\ ~Has(ui'.printed, "success")
                   /\ ~Has(ui'.printed, "uncaught")]_vars

C8_Witness ==
    /\ mode = "form"
    /\ hist.failed
    /\ ~ui.append_raised
    /\ Has(ui.printed, "success")
    /\ Len(hist.appended) = 1

Started == {p \in DOMAIN procs : procs[p].pc # "idle" \/ procs[p].done > 0}

\* C9: every header row of a file that started empty was written by a
\* writer that tested the file while it was empty; a writer writes at most
\* one, so a file with more than one header needs more than one writer, and
\* two writers can produce it.
C9_HeadersNeedWriters ==
    /\ \A p \in DOMAIN procs : procs[p].headers <= 1
    /\ HeaderCount(file.rows)
           = Cardinality({p \in DOMAIN procs : procs[p].headers = 1})
    /\ HeaderCount(file.rows) <= Cardinality(Started)

C9_Witness ==
    /\ HeaderCount(file.rows) = 2
    /\ \A p \in DOMAIN procs : procs[p].headers = 1

\* C10: every row a driver appends has a canonical timestamp whatever text
\* was typed, and the drivers hand the constructor date/time values only,
\* so it raises no TypeError.
C10_DriverRowsCanonical ==
    /\ \A i \in 1..Len(hist.appended) : IsCanonical(hist.appended[i][1])
    /\ \A i \in 1..Len(file.rows) :
           IsData(file.rows[i]) => IsCanonical(file.rows[i][1])
    /\ last.raised # "TypeError"
    /\ last.op = "init" => last.value.kind = "datetime"

C10_Witness ==
    /\ Has(ui.printed, "warning")
    /\ Has(ui.printed, "appended")
    /\ Len(hist.appended) = 2
    /\ hist.appended[1][1] # hist.appended[2][1]
    /\ IsCanonical(hist.appended[2][1])

====
